---- MODULE Spec2Model ----
(***************************************************************************)
(* Model of etl_weekly_summary_to_mysql.py: the weekly-summary ETL that    *)
(* melts wide CSV exports into tidy records, filters them by a time scope, *)
(* persists them (CSV + MySQL) and aggregates them in pandas and in SQL.   *)
(*                                                                         *)
(* Text is a sequence of one-character strings.  A missing text (pandas    *)
(* NaN in an object column) is NaN; a missing number (NaN in a float       *)
(* column, NULL in MySQL) is the empty tuple and a number n is <<n>>.      *)
(***************************************************************************)
EXTENDS Integers, Sequences, FiniteSets, TLC

VARIABLES
    pc,          \* position in main(), or "call"/"return" of a function under test
    arg,         \* argument of the function under test
    ret,         \* its return value
    rawDir,      \* the CSV files in data/raw: the run's input
    raw,         \* main: the concatenated raw frame
    tidy,        \* main: what tidy_weekly_summary(raw) returned
    clean,       \* main: clean after the scope filter
    outDir,      \* whether outputs/ exists
    cleanCsv,    \* outputs/weekly_metrics_clean.csv: Absent or its data rows
    dbExists,    \* whether the MySQL database exists
    tableRaw,    \* table weekly_summary_raw: Missing or its rows
    tableClean,  \* table weekly_metrics_clean: Missing or its rows
    revenue,     \* main: revenue by year, computed with pandas
    sqlResult,   \* main: result of the total_revenue_per_year query
    err,         \* the exception that ended the run, or "none"
    runs,        \* number of runs of main() started
    observed,    \* what a concurrent reader last read from weekly_metrics_clean
    atStart,     \* outputs as they were when the current run started
    firstDone    \* persisted outputs as the first successful run left them

vars == <<pc, arg, ret, rawDir, raw, tidy, clean, outDir, cleanCsv, dbExists,
          tableRaw, tableClean, revenue, sqlResult, err, runs, observed,
          atStart, firstDone>>

(***************************************************************************)
(* Bounds of the model.                                                    *)
(***************************************************************************)
MaxLen == 4      \* longest enumerated cell text
MaxRows == 2     \* most rows of an enumerated frame
MaxCols == 2     \* most value columns of an enumerated frame
MaxFiles == 2    \* most CSV files in data/raw
MaxRuns == 2     \* most runs of main() on the same input

(***************************************************************************)
(* Values                                                                  *)
(***************************************************************************)
NaN == <<"NaN">>
Undefined == <<>>
Num(n) == <<n>>

Digits == <<"0", "1", "2", "3", "4", "5", "6", "7", "8", "9">>
UpperLetters == <<"A", "B", "C", "D", "E", "F", "G", "H", "I", "J", "K", "L", "M",
                  "N", "O", "P", "Q", "R", "S", "T", "U", "V", "W", "X", "Y", "Z">>
LowerLetters == <<"a", "b", "c", "d", "e", "f", "g", "h", "i", "j", "k", "l", "m",
                  "n", "o", "p", "q", "r", "s", "t", "u", "v", "w", "x", "y", "z">>

IsDigit(c) == \E i \in 1..10 : Digits[i] = c
DigitVal(c) == (CHOOSE i \in 1..10 : Digits[i] = c) - 1
IsSpace(c) == c = " "
IsWordChar(c) ==
    \/ IsDigit(c)
    \/ c = "_"
    \/ \E i \in 1..26 : UpperLetters[i] = c \/ LowerLetters[i] = c

\* str.lower() on one character
LowerChar(c) ==
    IF \E i \in 1..26 : UpperLetters[i] = c
    THEN LowerLetters[CHOOSE i \in 1..26 : UpperLetters[i] = c]
    ELSE c
Lower(s) == [i \in 1..Len(s) |-> LowerChar(s[i])]

StartsWith(s, p) == Len(s) >= Len(p) /\ SubSeq(s, 1, Len(p)) = p
Drop(s, n) == SubSeq(s, n + 1, Len(s))

\* int() of a run of digits
RECURSIVE IntOf(_)
IntOf(ds) ==
    IF ds = <<>> THEN 0
    ELSE 10 * IntOf(SubSeq(ds, 1, Len(ds) - 1)) + DigitVal(ds[Len(ds)])

\* first index >= i of s that is not whitespace (Len(s)+1 if none): regex \s*
RECURSIVE SkipSpace(_, _)
SkipSpace(s, i) ==
    IF i <= Len(s) /\ IsSpace(s[i]) THEN SkipSpace(s, i + 1) ELSE i

\* first index >= i of s that is not a digit (Len(s)+1 if none)
RECURSIVE SkipDigits(_, _)
SkipDigits(s, i) ==
    IF i <= Len(s) /\ IsDigit(s[i]) THEN SkipDigits(s, i + 1) ELSE i

\* str.strip()
RECURSIVE LStrip(_)
LStrip(s) == IF s # <<>> /\ IsSpace(Head(s)) THEN LStrip(Tail(s)) ELSE s
RECURSIVE RStrip(_)
RStrip(s) ==
    IF s # <<>> /\ IsSpace(s[Len(s)]) THEN RStrip(SubSeq(s, 1, Len(s) - 1)) ELSE s
Strip(s) == RStrip(LStrip(s))

(***************************************************************************)
(* Label Parser: parse_week_year                                           *)
(***************************************************************************)
\* pat = Week\s*(\d{1,2})\s*,\s*(\d{4}), IGNORECASE, tried at index i of s.
\* \d{1,2} must be followed by \s*, so the digit run after "Week" is 1 or 2
\* long; \d{4} takes the first four digits of the run after the comma.
PatMatchAt(s, i) ==
    LET w == SkipSpace(s, i + 4)
        we == SkipDigits(s, w)
        c == SkipSpace(s, we)
        y == SkipSpace(s, c + 1)
        ye == SkipDigits(s, y)
    IN  IF /\ i + 3 <= Len(s)
           /\ Lower(SubSeq(s, i, i + 3)) = <<"w", "e", "e", "k">>
           /\ we - w \in {1, 2}
           /\ c <= Len(s) /\ s[c] = ","
           /\ ye - y >= 4
        THEN <<IntOf(SubSeq(s, w, we - 1)), IntOf(SubSeq(s, y, y + 3))>>
        ELSE Undefined

\* pat.search: the leftmost index at which the pattern matches
RECURSIVE PatSearch(_, _)
PatSearch(s, i) ==
    IF i > Len(s) THEN Undefined
    ELSE IF PatMatchAt(s, i) # Undefined THEN PatMatchAt(s, i)
    ELSE PatSearch(s, i + 1)

\* <<week, year>>, or Undefined for (nan, nan)
parse_week_year(lbl) == PatSearch(lbl, 1)

(***************************************************************************)
(* Value Normalizer: lines 98-106                                          *)
(***************************************************************************)
\* .astype(str): a missing cell becomes the text "nan"
AsStr(cell) == IF cell = NaN THEN <<"n", "a", "n">> ELSE cell

\* .str.replace(r"[\$,]", "")
RECURSIVE RemoveCurrency(_)
RemoveCurrency(s) ==
    IF s = <<>> THEN <<>>
    ELSE IF Head(s) \in {"$", ","} THEN RemoveCurrency(Tail(s))
    ELSE <<Head(s)>> \o RemoveCurrency(Tail(s))

\* index of the first ")" of s, 0 if none
FirstClose(s) ==
    IF \E j \in 1..Len(s) : s[j] = ")"
    THEN CHOOSE j \in 1..Len(s) : s[j] = ")" /\ \A k \in 1..(j - 1) : s[k] # ")"
    ELSE 0

\* .str.replace(r"\(([^)]+)\)", r"-\1"): every leftmost non-overlapping match,
\* anywhere in the text
RECURSIVE ParenToMinus(_)
ParenToMinus(s) ==
    IF s = <<>> THEN <<>>
    ELSE IF Head(s) = "(" /\ FirstClose(s) >= 3
         THEN <<"-">> \o SubSeq(s, 2, FirstClose(s) - 1)
                      \o ParenToMinus(Drop(s, FirstClose(s)))
    ELSE <<Head(s)>> \o ParenToMinus(Tail(s))

\* pd.to_numeric(errors="coerce") on the texts of the model's alphabet: an
\* optional minus sign and one or more digits is a number, all else is NaN
to_numeric(s) ==
    LET body == IF s # <<>> /\ Head(s) = "-" THEN Tail(s) ELSE s
    IN  IF body # <<>> /\ \A i \in 1..Len(body) : IsDigit(body[i])
        THEN Num(IF body = s THEN IntOf(body) ELSE 0 - IntOf(body))
        ELSE Undefined

ParseValue(value_raw) ==
    to_numeric(Strip(ParenToMinus(RemoveCurrency(AsStr(value_raw)))))

(***************************************************************************)
(* Metric Decomposer: lines 110-114                                        *)
(***************************************************************************)
ChannelTags == << <<"C", "B">>, <<"B", "G">>, <<"D", "S">>,
                  <<"T", "o", "t", "a", "l">> >>

\* index of the first alternative of ^(CB|BG|DS|Total) matching at the start, 0 if none
TagIndex(metric) ==
    IF \E i \in 1..Len(ChannelTags) : StartsWith(metric, ChannelTags[i])
    THEN CHOOSE i \in 1..Len(ChannelTags) :
            /\ StartsWith(metric, ChannelTags[i])
            /\ \A k \in 1..(i - 1) : ~StartsWith(metric, ChannelTags[k])
    ELSE 0

\* .str.extract(r"^(CB|BG|DS|Total)")
ExtractChannel(metric) ==
    IF TagIndex(metric) = 0 THEN NaN ELSE ChannelTags[TagIndex(metric)]

\* .str.replace(r"^(CB|BG|DS|Total)\s*", "")
StripChannel(metric) ==
    IF TagIndex(metric) = 0 THEN metric
    ELSE LStrip(Drop(metric, Len(ChannelTags[TagIndex(metric)])))

Decompose(metric) ==
    [channel |-> ExtractChannel(metric), metric_name |-> StripChannel(metric)]

(***************************************************************************)
(* Frames.  A frame is [cols |-> names, rows |-> rows], every row as long  *)
(* as cols.  A CSV file is [name, cols, rows] with its cells as written.   *)
(***************************************************************************)
IndexOf(seq, x) == IF \E i \in 1..Len(seq) : seq[i] = x
                   THEN CHOOSE i \in 1..Len(seq) : seq[i] = x
                   ELSE 0

RECURSIVE Flatten(_)
Flatten(ss) == IF ss = <<>> THEN <<>> ELSE Head(ss) \o Flatten(Tail(ss))

\* the texts pd.read_csv reads as a missing value (those the model's files use)
NaTexts == {<<>>, <<"N", "/", "A">>, <<"n", "a", "n">>}

\* pd.read_csv(path): the file's table, blank and N/A cells missing
read_csv_any(f) ==
    [cols |-> f.cols,
     rows |-> [i \in 1..Len(f.rows) |->
                 [j \in 1..Len(f.cols) |->
                    IF f.rows[i][j] \in NaTexts THEN NaN ELSE f.rows[i][j]]]]

\* df["source_file"] = os.path.basename(f)
WithSourceFile(df, name) ==
    [cols |-> df.cols \o << <<"s", "o", "u", "r", "c", "e", "_", "f", "i", "l", "e">> >>,
     rows |-> [i \in 1..Len(df.rows) |-> df.rows[i] \o <<name>>]]

\* the columns of pd.concat(frames): their union, in order of first appearance
RECURSIVE UnionCols(_, _)
UnionCols(acc, frames) ==
    IF frames = <<>> THEN acc
    ELSE LET new(c) == IndexOf(acc, c) = 0
         IN  UnionCols(acc \o SelectSeq(Head(frames).cols, new), Tail(frames))

\* pd.concat(frames, ignore_index=True): rows stacked, a column a frame lacks is NaN
concat(frames) ==
    LET cols == UnionCols(<<>>, frames)
        widen(df) == [i \in 1..Len(df.rows) |->
                        [j \in 1..Len(cols) |->
                           IF IndexOf(df.cols, cols[j]) = 0 THEN NaN
                           ELSE df.rows[i][IndexOf(df.cols, cols[j])]]]
    IN  [cols |-> cols,
         rows |-> Flatten([k \in 1..Len(frames) |-> widen(frames[k])])]

(***************************************************************************)
(* Wide-to-Long Melter: tidy_weekly_summary                                *)
(***************************************************************************)
\* ~df.columns.astype(str).str.contains(r"^Unnamed"): tested on every column,
\* the first one included
IsUnnamed(col) == StartsWith(col, <<"U", "n", "n", "a", "m", "e", "d">>)

\* one melted row (metric, week_label, value_raw) turned into a record, or
\* nothing when the week label does not parse (dropna on week, year)
TidyRow(metric, week_label, value_raw) ==
    LET wy == parse_week_year(week_label)
    IN  IF wy = Undefined THEN <<>>
        ELSE << [year |-> wy[2], week |-> wy[1],
                 channel |-> ExtractChannel(metric),
                 metric_name |-> StripChannel(metric),
                 value |-> ParseValue(value_raw),
                 metric |-> metric] >>

\* [error, records]: melt raises KeyError when the id column was dropped as
\* an Unnamed column; otherwise the records, column by column (melt's order)
tidy_weekly_summary(df) ==
    LET hasMetric(r) == r[1] # NaN
        rows == SelectSeq(df.rows, hasMetric)
        kept == {j \in 1..Len(df.cols) : ~IsUnnamed(df.cols[j])}
        ofCol(j) == IF j \in kept
                    THEN Flatten([i \in 1..Len(rows) |->
                                    TidyRow(rows[i][1], df.cols[j], rows[i][j])])
                    ELSE <<>>
    IN  IF 1 \notin kept
        THEN [error |-> "KeyError", records |-> <<>>]
        ELSE [error |-> "none",
              records |-> Flatten([j \in 1..(Len(df.cols) - 1) |-> ofCol(j + 1)])]

(***************************************************************************)
(* Scope Filter: lines 176-180                                             *)
(***************************************************************************)
CUTOFF_2025_WEEK == 31

\* the cutoff week itself left out
InScopeExclusive(r) ==
    \/ r.year = 2024
    \/ (r.year = 2025 /\ r.week < CUTOFF_2025_WEEK)

InScope(r) ==
    \/ r.year = 2024
    \/ (r.year = 2025 /\ r.week <= CUTOFF_2025_WEEK)

ScopeFilter(records) == SelectSeq(records, InScope)

(***************************************************************************)
(* Persistence: DataFrame.to_csv and DataFrame.to_sql(if_exists="replace") *)
(***************************************************************************)
Absent == [exists |-> FALSE, rows |-> <<>>]
Missing == [exists |-> FALSE, rows |-> <<>>]
SqlNull == <<"NULL">>

\* to_csv writes a missing channel as an empty field (a missing value is
\* already the empty tuple)
CsvRow(r) == [r EXCEPT !.channel = IF @ = NaN THEN <<>> ELSE @]
CsvRows(records) == [i \in 1..Len(records) |-> CsvRow(records[i])]

\* to_sql writes a missing channel as NULL (a missing value is already the
\* empty tuple, which stands for NULL in a numeric column)
SqlRow(r) == [r EXCEPT !.channel = IF @ = NaN THEN SqlNull ELSE @]
SqlRows(records) == [i \in 1..Len(records) |-> SqlRow(records[i])]
SqlCells(df) == [i \in 1..Len(df.rows) |->
                   [j \in 1..Len(df.cols) |->
                      IF df.rows[i][j] = NaN THEN SqlNull ELSE df.rows[i][j]]]

\* open(path, "w"): the file exists and is empty, whatever it held
OpenForWrite(file) == [exists |-> TRUE, rows |-> <<>>]

\* the three statements of to_sql(if_exists="replace"), each committed on its
\* own (MySQL commits DDL implicitly): DROP TABLE, CREATE TABLE, INSERT
\* if_exists="append": the table is kept
KeepTable(table) == table
DropTable(table) == Missing
CreateTable(table) == IF table.exists THEN table ELSE [exists |-> TRUE, rows |-> <<>>]
InsertRows(table, rows) == [table EXCEPT !.rows = @ \o rows]

(***************************************************************************)
(* Aggregation: pandas (lines 201-206) and SQL (lines 220-226)             *)
(***************************************************************************)
RECURSIVE SumDefined(_)
SumDefined(values) ==
    IF values = <<>> THEN 0
    ELSE (IF Head(values) = Undefined THEN 0 ELSE Head(values)[1])
         + SumDefined(Tail(values))

ValuesOfYear(records, y) ==
    LET inYear(r) == r.year = y
        rs == SelectSeq(records, inYear)
    IN  [i \in 1..Len(rs) |-> rs[i].value]

\* clean[clean["metric_name"].str.lower() == "revenue"]
\*     .groupby("year")["value"].sum().to_dict()
\* Series.sum skips NaN and is 0 for a group with nothing left to add.
PandasRevenueByYear(records) ==
    LET isRevenue(r) == Lower(r.metric_name) = <<"r", "e", "v", "e", "n", "u", "e">>
        rs == SelectSeq(records, isRevenue)
    IN  {<<rs[i].year, Num(SumDefined(ValuesOfYear(rs, rs[i].year)))>> :
            i \in 1..Len(rs)}

\* SELECT year, SUM(value) FROM weekly_metrics_clean
\*     WHERE metric_name = 'Revenue' GROUP BY year
\* SUM skips NULL and is NULL for a group with no non-NULL value.  The
\* model's labels spell Revenue one way, so the collation does not matter.
SqlTotalRevenuePerYear(rows) ==
    LET isRevenue(r) == r.metric_name = <<"R", "e", "v", "e", "n", "u", "e">>
        rs == SelectSeq(rows, isRevenue)
        total(y) == IF \A i \in 1..Len(rs) : rs[i].year = y => rs[i].value = Undefined
                    THEN Undefined
                    ELSE Num(SumDefined(ValuesOfYear(rs, y)))
    IN  {<<rs[i].year, total(rs[i].year)>> : i \in 1..Len(rs)}

(***************************************************************************)
(* Inputs                                                                  *)
(***************************************************************************)
T_Metric == <<"M", "e", "t", "r", "i", "c">>
T_KPI == <<"K", "P", "I">>
T_Unnamed0 == <<"U", "n", "n", "a", "m", "e", "d", ":", " ", "0">>
T_Unnamed2 == <<"U", "n", "n", "a", "m", "e", "d", ":", " ", "2">>
T_Week5_2024 == <<"W", "e", "e", "k", " ", "5", ",", " ", "2", "0", "2", "4">>
T_week05_2024 == <<"w", "e", "e", "k", " ", "0", "5", " ", ",", " ", "2", "0", "2", "4">>
T_Week0_2024 == <<"W", "e", "e", "k", " ", "0", ",", " ", "2", "0", "2", "4">>
T_Week99_2024 == <<"W", "e", "e", "k", " ", "9", "9", ",", " ", "2", "0", "2", "4">>
T_Week5_20245 == <<"W", "e", "e", "k", " ", "5", ",", " ", "2", "0", "2", "4", "5">>
T_Q1_2024 == <<"Q", "1", " ", "2", "0", "2", "4">>
T_Week52_2024 == <<"W", "e", "e", "k", " ", "5", "2", ",", " ", "2", "0", "2", "4">>
T_Week31_2025 == <<"W", "e", "e", "k", " ", "3", "1", ",", " ", "2", "0", "2", "5">>
T_Week32_2025 == <<"W", "e", "e", "k", " ", "3", "2", ",", " ", "2", "0", "2", "5">>
T_Week1_2023 == <<"W", "e", "e", "k", " ", "1", ",", " ", "2", "0", "2", "3">>
T_CB_Revenue == <<"C", "B", " ", "R", "e", "v", "e", "n", "u", "e">>
T_BG_Revenue == <<"B", "G", " ", "R", "e", "v", "e", "n", "u", "e">>
T_Revenue == <<"R", "e", "v", "e", "n", "u", "e">>
T_Total_Net_Income == <<"T", "o", "t", "a", "l", " ", "N", "e", "t", " ", "I", "n", "c", "o", "m", "e">>
T_NA == <<"N", "/", "A">>

\* the CSV files data/raw may hold, in the order of their names
Catalogue == <<
    [name |-> <<"a", ".", "c", "s", "v">>,
     cols |-> <<T_Metric, T_Week52_2024, T_Week31_2025>>,
     rows |-> << <<T_CB_Revenue, <<"$", "1">>, <<"(", "2", ")">> >>,
                 <<T_Total_Net_Income, <<"$", "3">>, T_NA>> >>],
    [name |-> <<"b", ".", "c", "s", "v">>,
     cols |-> <<T_Metric, T_Week32_2025, T_Unnamed2>>,
     rows |-> << <<T_CB_Revenue, <<"$", "2">>, <<>> >>,
                 << <<>>, <<"$", "1">>, <<>> >> >>],
    [name |-> <<"c", ".", "c", "s", "v">>,
     cols |-> <<T_Metric, T_Week1_2023, T_Week5_2024>>,
     rows |-> << <<T_Revenue, <<"$", "4">>, T_NA>> >>],
    [name |-> <<"d", ".", "c", "s", "v">>,
     cols |-> <<T_KPI, T_Week5_2024>>,
     rows |-> << <<T_BG_Revenue, <<"$", "2">> >> >>],
    [name |-> <<"e", ".", "c", "s", "v">>,
     cols |-> <<T_Unnamed0, T_Week5_2024>>,
     rows |-> << <<T_CB_Revenue, <<"$", "1">> >> >>] >>

\* sorted(glob.glob("data/raw/*.csv"))
list_csvs(dir) ==
    LET present(f) == f \in dir
    IN  SelectSeq(Catalogue, present)

\* the frames main() reads and what it derives from them
Frames(fs) == [k \in 1..Len(fs) |-> WithSourceFile(read_csv_any(fs[k]), fs[k].name)]

(***************************************************************************)
(* main(): one action per statement that reads or writes the outside       *)
(***************************************************************************)
EmptyFrame == [cols |-> <<>>, rows |-> <<>>]
NotRead == [read |-> FALSE, table |-> Missing]
Outputs == [outDir |-> outDir, cleanCsv |-> cleanCsv, dbExists |-> dbExists,
            tableRaw |-> tableRaw, tableClean |-> tableClean]

Range(seq) == {seq[i] : i \in 1..Len(seq)}

\* the statements of main() from to_csv to the second to_sql
PersistPcs == {"to_csv_open", "to_csv_write", "mysql_engine",
               "raw_drop", "raw_create", "raw_insert",
               "clean_drop", "clean_create", "clean_insert"}
\* the statements after the scope filter
AfterScopePcs == PersistPcs \cup {"calc", "queries", "summary", "done"}

FunctionIdle == arg = <<>> /\ ret = <<>>
MainIdle ==
    /\ rawDir = {} /\ raw = EmptyFrame /\ tidy = <<>> /\ clean = <<>>
    /\ outDir = FALSE /\ cleanCsv = Absent /\ dbExists = FALSE
    /\ tableRaw = Missing /\ tableClean = Missing
    /\ revenue = {} /\ sqlResult = {} /\ err = "none" /\ runs = 0
    /\ observed = NotRead
    /\ atStart = [outDir |-> FALSE, cleanCsv |-> Absent, dbExists |-> FALSE,
                  tableRaw |-> Missing, tableClean |-> Missing]
    /\ firstDone = [run |-> 0, cleanCsv |-> Absent, tableClean |-> Missing]

Init ==
    /\ pc = "ensure_dirs"
    /\ FunctionIdle
    /\ rawDir \in {d \in SUBSET Range(Catalogue) : Cardinality(d) <= MaxFiles}
    /\ raw = EmptyFrame /\ tidy = <<>> /\ clean = <<>>
    /\ outDir = FALSE /\ cleanCsv = Absent /\ dbExists = FALSE
    /\ tableRaw = Missing /\ tableClean = Missing
    /\ revenue = {} /\ sqlResult = {} /\ err = "none" /\ runs = 1
    /\ observed = NotRead
    /\ atStart = [outDir |-> FALSE, cleanCsv |-> Absent, dbExists |-> FALSE,
                  tableRaw |-> Missing, tableClean |-> Missing]
    /\ firstDone = [run |-> 0, cleanCsv |-> Absent, tableClean |-> Missing]

\* line 161: os.makedirs(OUT_DIR, exist_ok=True)
EnsureDirs ==
    /\ pc = "ensure_dirs"
    /\ outDir' = TRUE
    /\ pc' = "list_csvs"
    /\ UNCHANGED <<arg, ret, rawDir, raw, tidy, clean, cleanCsv, dbExists, tableRaw,
                   tableClean, revenue, sqlResult, err, runs, observed, atStart,
                   firstDone>>

\* line 164: files = list_csvs(), which raises FileNotFoundError on no file
ListCsvs ==
    /\ pc = "list_csvs"
    /\ IF list_csvs(rawDir) = <<>>
       THEN pc' = "failed" /\ err' = "FileNotFoundError"
       ELSE pc' = "read" /\ err' = err
    /\ UNCHANGED <<arg, ret, rawDir, raw, tidy, clean, outDir, cleanCsv, dbExists,
                   tableRaw, tableClean, revenue, sqlResult, runs, observed,
                   atStart, firstDone>>

\* lines 165-171: read every file, tag it with its name, concatenate
ReadAndConcat ==
    /\ pc = "read"
    /\ raw' = concat(Frames(list_csvs(rawDir)))
    /\ pc' = "tidy"
    /\ UNCHANGED <<arg, ret, rawDir, tidy, clean, outDir, cleanCsv, dbExists,
                   tableRaw, tableClean, revenue, sqlResult, err, runs, observed,
                   atStart, firstDone>>

\* line 174: clean = tidy_weekly_summary(raw)
Tidy ==
    /\ pc = "tidy"
    /\ LET t == tidy_weekly_summary(raw)
       IN  IF t.error = "none"
           THEN tidy' = t.records /\ pc' = "scope" /\ err' = err
           ELSE tidy' = tidy /\ pc' = "failed" /\ err' = t.error
    /\ UNCHANGED <<arg, ret, rawDir, raw, clean, outDir, cleanCsv, dbExists,
                   tableRaw, tableClean, revenue, sqlResult, runs, observed,
                   atStart, firstDone>>

\* lines 177-180: the scope filter
Scope ==
    /\ pc = "scope"
    /\ clean' = ScopeFilter(tidy)
    /\ pc' = "to_csv_open"
    /\ UNCHANGED <<arg, ret, rawDir, raw, tidy, outDir, cleanCsv, dbExists, tableRaw,
                   tableClean, revenue, sqlResult, err, runs, observed, atStart,
                   firstDone>>

\* line 184: clean.to_csv(clean_csv) opens the file for writing ...
ToCsvOpen ==
    /\ pc = "to_csv_open"
    /\ cleanCsv' = OpenForWrite(cleanCsv)
    /\ pc' = "to_csv_write"
    /\ UNCHANGED <<arg, ret, rawDir, raw, tidy, clean, outDir, dbExists, tableRaw,
                   tableClean, revenue, sqlResult, err, runs, observed, atStart,
                   firstDone>>

\* ... and writes the rows
ToCsvWrite ==
    /\ pc = "to_csv_write"
    /\ cleanCsv' = [cleanCsv EXCEPT !.rows = @ \o CsvRows(clean)]
    /\ pc' = "mysql_engine"
    /\ UNCHANGED <<arg, ret, rawDir, raw, tidy, clean, outDir, dbExists, tableRaw,
                   tableClean, revenue, sqlResult, err, runs, observed, atStart,
                   firstDone>>

\* line 187: mysql_engine() runs CREATE DATABASE IF NOT EXISTS
MysqlEngine ==
    /\ pc = "mysql_engine"
    /\ dbExists' = TRUE
    /\ pc' = "raw_drop"
    /\ UNCHANGED <<arg, ret, rawDir, raw, tidy, clean, outDir, cleanCsv, tableRaw,
                   tableClean, revenue, sqlResult, err, runs, observed, atStart,
                   firstDone>>

\* line 188: raw.to_sql(TABLE_RAW, if_exists="replace")
RawToSql ==
    /\ \/ pc = "raw_drop" /\ tableRaw' = DropTable(tableRaw) /\ pc' = "raw_create"
       \/ pc = "raw_create" /\ tableRaw' = CreateTable(tableRaw) /\ pc' = "raw_insert"
       \/ pc = "raw_insert" /\ tableRaw' = InsertRows(tableRaw, SqlCells(raw))
                            /\ pc' = "clean_drop"
    /\ UNCHANGED <<arg, ret, rawDir, raw, tidy, clean, outDir, cleanCsv, dbExists,
                   tableClean, revenue, sqlResult, err, runs, observed, atStart,
                   firstDone>>

\* line 189: clean.to_sql(TABLE_CLEAN, if_exists="replace")
CleanToSql ==
    /\ \/ pc = "clean_drop" /\ tableClean' = DropTable(tableClean) /\ pc' = "clean_create"
       \/ pc = "clean_create" /\ tableClean' = CreateTable(tableClean)
                              /\ pc' = "clean_insert"
       \/ pc = "clean_insert" /\ tableClean' = InsertRows(tableClean, SqlRows(clean))
                              /\ pc' = "calc"
    /\ UNCHANGED <<arg, ret, rawDir, raw, tidy, clean, outDir, cleanCsv, dbExists,
                   tableRaw, revenue, sqlResult, err, runs, observed, atStart,
                   firstDone>>

\* a write to the file system or to MySQL raises (disk full, server gone):
\* nothing catches it, the run ends with what was written so far
WriteFails ==
    /\ pc \in PersistPcs
    /\ pc' = "failed"
    /\ err' = "PersistenceError"
    /\ UNCHANGED <<arg, ret, rawDir, raw, tidy, clean, outDir, cleanCsv, dbExists,
                   tableRaw, tableClean, revenue, sqlResult, runs, observed,
                   atStart, firstDone>>

\* lines 201-206: revenue by year in pandas
PythonCalc ==
    /\ pc = "calc"
    /\ revenue' = PandasRevenueByYear(clean)
    /\ pc' = "queries"
    /\ UNCHANGED <<arg, ret, rawDir, raw, tidy, clean, outDir, cleanCsv, dbExists,
                   tableRaw, tableClean, sqlResult, err, runs, observed, atStart,
                   firstDone>>

\* lines 256-260: the total_revenue_per_year query on the persisted table
RunQueries ==
    /\ pc = "queries"
    /\ sqlResult' = SqlTotalRevenuePerYear(tableClean.rows)
    /\ pc' = "summary"
    /\ UNCHANGED <<arg, ret, rawDir, raw, tidy, clean, outDir, cleanCsv, dbExists,
                   tableRaw, tableClean, revenue, err, runs, observed, atStart,
                   firstDone>>

\* lines 263-283: the summary file and the closing messages
Summary ==
    /\ pc = "summary"
    /\ pc' = "done"
    /\ firstDone' = IF firstDone.run = 0
                    THEN [run |-> runs, cleanCsv |-> cleanCsv, tableClean |-> tableClean]
                    ELSE firstDone
    /\ UNCHANGED <<arg, ret, rawDir, raw, tidy, clean, outDir, cleanCsv, dbExists,
                   tableRaw, tableClean, revenue, sqlResult, err, runs, observed,
                   atStart>>

\* the script is run again on the same data/raw
Rerun ==
    /\ pc \in {"done", "failed"}
    /\ runs < MaxRuns
    /\ pc' = "ensure_dirs"
    /\ runs' = runs + 1
    /\ raw' = EmptyFrame /\ tidy' = <<>> /\ clean' = <<>>
    /\ revenue' = {} /\ sqlResult' = {} /\ err' = "none"
    /\ observed' = NotRead
    /\ atStart' = Outputs
    /\ UNCHANGED <<arg, ret, rawDir, outDir, cleanCsv, dbExists, tableRaw, tableClean,
                   firstDone>>

\* another MySQL client reads weekly_metrics_clean while main() runs
Reader ==
    /\ pc \notin {"done", "failed"}
    /\ observed # [read |-> TRUE, table |-> tableClean]
    /\ observed' = [read |-> TRUE, table |-> tableClean]
    /\ UNCHANGED <<pc, arg, ret, rawDir, raw, tidy, clean, outDir, cleanCsv, dbExists,
                   tableRaw, tableClean, revenue, sqlResult, err, runs, atStart,
                   firstDone>>

Next ==
    \/ EnsureDirs \/ ListCsvs \/ ReadAndConcat \/ Tidy \/ Scope
    \/ ToCsvOpen \/ ToCsvWrite \/ MysqlEngine \/ RawToSql \/ CleanToSql
    \/ WriteFails \/ PythonCalc \/ RunQueries \/ Summary \/ Rerun \/ Reader

Spec == Init /\ [][Next]_vars

(***************************************************************************)
(* Properties of main()                                                    *)
(***************************************************************************)
HasPeriod(records, y, w) ==
    \E i \in 1..Len(records) : records[i].year = y /\ records[i].week = w

\* C4: with primaryYear 2024, extendedYear 2025 and cutoff week 31, a tidy
\* record is in the filtered set if and only if its year is 2024, or its
\* year is 2025 and its week is at most 31; nothing else is kept, nothing
\* inside the window is dropped, and the kept records keep their multiplicity.
ScopeFilterKeepsExactlyTheWindow ==
    pc \in AfterScopePcs =>
        LET inWindow(i) == \/ tidy[i].year = 2024
                           \/ (tidy[i].year = 2025 /\ tidy[i].week <= 31)
        IN  /\ \A i \in 1..Len(tidy) : (tidy[i] \in Range(clean)) <=> inWindow(i)
            /\ Range(clean) \subseteq Range(tidy)
            /\ Len(clean) = Cardinality({i \in 1..Len(tidy) : inWindow(i)})

ScopeFilterWitness ==
    /\ pc \in AfterScopePcs
    /\ HasPeriod(clean, 2025, 31) /\ HasPeriod(clean, 2024, 52)
    /\ HasPeriod(tidy, 2025, 32) /\ ~HasPeriod(clean, 2025, 32)

\* C6: when data/raw holds no CSV file the run ends in the missing-input
\* error with every output (directory, file, database, table) as it was when
\* the run started.
MissingInputAbortsBeforeAnyWrite ==
    err = "FileNotFoundError" => Outputs = atStart

\* what the run leaves when every write succeeds
NewCleanCsv == [exists |-> TRUE, rows |-> CsvRows(clean)]
NewTableRaw == [exists |-> TRUE, rows |-> SqlCells(raw)]
NewTableClean == [exists |-> TRUE, rows |-> SqlRows(clean)]

\* C7: from the first write of a run on, each persisted output (the cleaned
\* CSV, the raw table, the canonical tidy table) is either wholly as the run
\* found it or wholly as the run leaves it, also when a write fails, and a
\* concurrent reader of the tidy table sees one of those two states only.
PersistenceIsAtomic ==
    (pc \in AfterScopePcs \/ err = "PersistenceError") =>
        /\ cleanCsv \in {atStart.cleanCsv, NewCleanCsv}
        /\ tableRaw \in {atStart.tableRaw, NewTableRaw}
        /\ tableClean \in {atStart.tableClean, NewTableClean}
        /\ observed.read => observed.table \in {atStart.tableClean, NewTableClean}

\* C8: after every successful run on the same input files, the persisted
\* tidy table and the cleaned CSV hold exactly the tidy set of that run, which
\* is what the first successful run left: earlier output is overwritten.
RerunIsIdempotent ==
    pc = "done" =>
        /\ tableClean = NewTableClean
        /\ cleanCsv = NewCleanCsv
        /\ tableClean = firstDone.tableClean
        /\ cleanCsv = firstDone.cleanCsv

RerunWitness ==
    /\ pc = "done"
    /\ firstDone.run # 0 /\ firstDone.run < runs
    /\ Len(tableClean.rows) > 0 /\ Len(cleanCsv.rows) > 0

\* C9: the revenue by year computed in pandas equals the result of the
\* total_revenue_per_year query on the persisted table: the same years, each
\* with the same sum, an undefined value never counted as 0.
AggregationIsStorageIndependent ==
    pc \in {"summary", "done"} => revenue = sqlResult

\* the tidy set of one file melted on its own
TidyOf(f) == Range(tidy_weekly_summary(read_csv_any(f)).records)

\* C10: the tidy set main() derives from all input files is the union of the
\* tidy sets of the files melted one by one.
TablesAreIndependent ==
    pc \in AfterScopePcs \cup {"scope"} =>
        Range(tidy) = UNION {TidyOf(f) : f \in rawDir}

(***************************************************************************)
(* Metric Decomposer on its own: every label built from a prefix, a        *)
(* continuation and a metric name.                                         *)
(***************************************************************************)
LabelPrefixes == {<<>>, <<"C", "B">>, <<"B", "G">>, <<"D", "S">>,
                  <<"T", "o", "t", "a", "l">>, <<"c", "b">>, <<"C">>}
LabelMiddles == {<<>>, <<" ">>, <<" ", " ">>, <<"X">>, <<"X", " ">>, <<"s", " ">>}
LabelRests == {<<>>, T_Revenue, <<"N", "e", "t", " ", "I", "n", "c", "o", "m", "e">>}
Labels == {p \o m \o r : p \in LabelPrefixes, m \in LabelMiddles, r \in LabelRests}

InitDecompose ==
    /\ pc = "call" /\ arg \in Labels /\ ret = <<>>
    /\ MainIdle

CallDecompose ==
    /\ pc = "call"
    /\ ret' = Decompose(arg)
    /\ pc' = "return"
    /\ UNCHANGED <<arg, rawDir, raw, tidy, clean, outDir, cleanCsv, dbExists, tableRaw,
                   tableClean, revenue, sqlResult, err, runs, observed, atStart,
                   firstDone>>

NextDecompose == CallDecompose

SpecDecompose == InitDecompose /\ [][NextDecompose]_vars

\* the label starts with the tag as a whole token: the tag ends the label or
\* is followed by a character that cannot continue a word
StartsWithToken(label, tag) ==
    /\ StartsWith(label, tag)
    /\ Len(label) > Len(tag) => ~IsWordChar(label[Len(tag) + 1])

\* C1: channel is one of CB, BG, DS, Total only when the label starts with
\* that tag as an exact token, and then metric_name is the label without the
\* tag and the whitespace after it; for every other label channel is
\* undefined and metric_name is the label unchanged.
DecomposerMatchesExactTokens ==
    pc = "return" =>
        IF \E k \in 1..Len(ChannelTags) : StartsWithToken(arg, ChannelTags[k])
        THEN \E k \in 1..Len(ChannelTags) :
                /\ StartsWithToken(arg, ChannelTags[k])
                /\ ret.channel = ChannelTags[k]
                /\ ret.metric_name = LStrip(Drop(arg, Len(ChannelTags[k])))
        ELSE ret.channel = NaN /\ ret.metric_name = arg

(***************************************************************************)
(* Value Normalizer on its own: every cell text of up to MaxLen characters *)
(* of the alphabet, the texts the documentation names, and a missing cell. *)
(***************************************************************************)
ValueAlphabet == {"1", "2", "(", ")", "$", ",", " ", "-", "N"}
ValueTexts ==
    UNION {[1..n -> ValueAlphabet] : n \in 0..MaxLen}
    \cup {<<"$", "2", ",", "3", "4", "5">>, <<"(", "1", ",", "2", "3", "4", ")">>,
          T_NA, NaN}

InitValue ==
    /\ pc = "call" /\ arg \in ValueTexts /\ ret = <<>>
    /\ MainIdle

CallValue ==
    /\ pc = "call"
    /\ ret' = ParseValue(arg)
    /\ pc' = "return"
    /\ UNCHANGED <<arg, rawDir, raw, tidy, clean, outDir, cleanCsv, dbExists, tableRaw,
                   tableClean, revenue, sqlResult, err, runs, observed, atStart,
                   firstDone>>

NextValue == CallValue

SpecValue == InitValue /\ [][NextValue]_vars

HasParen(s) == \E i \in 1..Len(s) : s[i] \in {"(", ")"}

\* the whole amount is parenthesized: "(X)" with no parenthesis inside X
FullyParenthesized(s) ==
    /\ Len(s) >= 3
    /\ s[1] = "(" /\ s[Len(s)] = ")"
    /\ ~HasParen(SubSeq(s, 2, Len(s) - 1))

\* C2: "(X)" as the whole amount is read as -X; a text with parentheses in
\* any other position is not made a number by the rewrite (its outcome is
\* what parsing it without the rewrite gives); "$2,345" is 2345, "(1,234)"
\* is -1234, and "", "N/A" and "-" are undefined.
ParenRewriteOnlyForWholeAmount ==
    pc = "return" =>
        LET s == Strip(RemoveCurrency(AsStr(arg)))
        IN  /\ FullyParenthesized(s) =>
                ret = to_numeric(Strip(<<"-">> \o SubSeq(s, 2, Len(s) - 1)))
            /\ ~FullyParenthesized(s) => ret = to_numeric(s)
            /\ arg = <<"$", "2", ",", "3", "4", "5">> => ret = Num(2345)
            /\ arg = <<"(", "1", ",", "2", "3", "4", ")">> => ret = Num(0 - 1234)
            /\ arg \in {<<>>, T_NA, <<"-">>} => ret = Undefined

(***************************************************************************)
(* tidy_weekly_summary on its own: every frame of up to MaxRows rows and   *)
(* up to MaxCols value columns.                                            *)
(***************************************************************************)
IdHeaders == {T_Metric, T_Unnamed0}
PeriodHeaders == {T_Week5_2024, T_week05_2024, T_Week0_2024, T_Week99_2024,
                  T_Week5_20245, T_Q1_2024, T_Unnamed2}
MetricCells == {NaN, T_CB_Revenue, T_Total_Net_Income}
ValueCells == {NaN, <<"$", "1">>, <<"-">>}

FramesOfShape(nrows, ncols) ==
    {[cols |-> <<id>> \o hs, rows |-> [i \in 1..nrows |-> <<ms[i]>> \o vs[i]]] :
        id \in IdHeaders, hs \in [1..ncols -> PeriodHeaders],
        ms \in [1..nrows -> MetricCells],
        vs \in [1..nrows -> [1..ncols -> ValueCells]]}

InitTidy ==
    /\ pc = "call" /\ ret = <<>>
    /\ \E nrows \in 1..MaxRows, ncols \in 1..MaxCols : arg \in FramesOfShape(nrows, ncols)
    /\ MainIdle

CallTidy ==
    /\ pc = "call"
    /\ ret' = tidy_weekly_summary(arg)
    /\ pc' = "return"
    /\ UNCHANGED <<arg, rawDir, raw, tidy, clean, outDir, cleanCsv, dbExists, tableRaw,
                   tableClean, revenue, sqlResult, err, runs, observed, atStart,
                   firstDone>>

NextTidy == CallTidy

SpecTidy == InitTidy /\ [][NextTidy]_vars

\* the header is, as a whole, "Week <1-2 digits>, <4-digit year>"
IsPeriodHeader(h) ==
    LET s == Strip(h)
        w == SkipSpace(s, 5)
        we == SkipDigits(s, w)
        c == SkipSpace(s, we)
        y == SkipSpace(s, c + 1)
    IN  /\ Len(s) >= 4 /\ Lower(SubSeq(s, 1, 4)) = <<"w", "e", "e", "k">>
        /\ we - w \in {1, 2}
        /\ c <= Len(s) /\ s[c] = ","
        /\ SkipDigits(s, y) = y + 4 /\ Len(s) = y + 3

\* C3: every record returned has a week between 1 and 53 and a four-digit
\* year, both taken from a column header of the form
\* "Week <1-2 digits>, <4-digit year>"; other headers produce no record.
RecordsHaveValidPeriods ==
    pc = "return" =>
        \A i \in 1..Len(ret.records) :
            /\ ret.records[i].week \in 1..53
            /\ ret.records[i].year \in 1000..9999
            /\ \E j \in 2..Len(arg.cols) :
                  /\ IsPeriodHeader(arg.cols[j])
                  /\ parse_week_year(arg.cols[j])
                        = <<ret.records[i].week, ret.records[i].year>>

\* the rows with a metric label and the period columns whose header parses
LabelledRows(df) == {i \in 1..Len(df.rows) : df.rows[i][1] # NaN}
ParsingCols(df) == {j \in 2..Len(df.cols) :
                      ~IsUnnamed(df.cols[j]) /\ parse_week_year(df.cols[j]) # Undefined}

\* C5: every row with a metric label and every non-placeholder column whose
\* header parses give exactly one record, whether or not the cell is a
\* number; a cell that is no number gives an undefined value, never 0; a
\* column whose header does not parse takes away only its own records.
ParseFailuresAreAbsorbed ==
    pc = "return" =>
        /\ ret.error = "none"
        /\ Len(ret.records) = Cardinality(LabelledRows(arg)) * Cardinality(ParsingCols(arg))
        /\ \A i \in LabelledRows(arg), j \in ParsingCols(arg) :
              \E k \in 1..Len(ret.records) :
                 /\ ret.records[k].metric = arg.rows[i][1]
                 /\ <<ret.records[k].week, ret.records[k].year>>
                       = parse_week_year(arg.cols[j])
                 /\ ret.records[k].value =
                       (IF arg.rows[i][j] = <<"$", "1">> THEN Num(1) ELSE Undefined)

====
